---- MODULE Spec2Model ----
(***************************************************************************)
(* Model of main.py of outlook_calendar_visualizer: the pipeline of main() *)
(* (roster, calendar feeds, reporting window, event filter, resolver       *)
(* mapping, per-employee day lists, status matrix) and generate_excel      *)
(* (weekday columns, month/week header groups, employee rows).             *)
(***************************************************************************)
EXTENDS Integers, Sequences, FiniteSets, TLC

(***************************************************************************)
(* datetime.date: a date is its number of days since 1970-01-01.           *)
(***************************************************************************)
Ordinal(y, m, d) ==
    LET yy  == IF m <= 2 THEN y - 1 ELSE y
        era == yy \div 400
        yoe == yy - era * 400
        mp  == (m + 9) % 12
        doy == (153 * mp + 2) \div 5 + d - 1
        doe == yoe * 365 + yoe \div 4 - yoe \div 100 + doy
    IN  era * 146097 + doe - 719468

Civil(z) ==
    LET zz  == z + 719468
        era == zz \div 146097
        doe == zz - era * 146097
        yoe == (doe - doe \div 1460 + doe \div 36524 - doe \div 146096) \div 365
        doy == doe - (365 * yoe + yoe \div 4 - yoe \div 100)
        mp  == (5 * doy + 2) \div 153
        d   == doy - (153 * mp + 2) \div 5 + 1
        m   == IF mp < 10 THEN mp + 3 ELSE mp - 9
        y   == yoe + era * 400 + (IF m <= 2 THEN 1 ELSE 0)
    IN  [year |-> y, month |-> m, day |-> d]

\* date.weekday(): Monday = 0 .. Sunday = 6
Weekday(z) == (z + 3) % 7

\* tm_yday, 0-based day of the year
YDay(z) == z - Ordinal(Civil(z).year, 1, 1)

\* %U: week of the year, Sunday first, days before the first Sunday in week 0
WeekOfYear(z) == (YDay(z) + 7 - ((Weekday(z) + 1) % 7)) \div 7

\* the dates the runs can touch
CalFirst == Ordinal(2023, 11, 1)
CalLast == Ordinal(2026, 12, 31)

\* f as an explicit table: TLC otherwise works an entry out again at every use
Table(f) == f @@ f

\* the calendar fields of every date, worked out once
Calendar ==
    Table([z \in CalFirst..CalLast |->
            [year |-> Civil(z).year, month |-> Civil(z).month, day |-> Civil(z).day,
             week |-> WeekOfYear(z)]])

YearOf(z) == Calendar[z].year
MonthOf(z) == Calendar[z].month
DayOf(z) == Calendar[z].day

MonthNames ==
    <<"January", "February", "March", "April", "May", "June", "July",
      "August", "September", "October", "November", "December">>

DayAbbr == <<"Mon", "Tue", "Wed", "Thu", "Fri", "Sat", "Sun">>

\* variant: d.strftime("%B"), the month's name without the year
MonthKeyNoYear(z) == <<MonthNames[MonthOf(z)]>>

\* d.strftime("%B %Y")
MonthKey(z) == <<MonthNames[MonthOf(z)], YearOf(z)>>

\* d.strftime("W%U"): zero-padded to two digits
WeekKey(z) == <<"W", Calendar[z].week \div 10, Calendar[z].week % 10>>

\* day.strftime("%a %d")
DayLabel(z) == <<DayAbbr[Weekday(z) + 1], DayOf(z) \div 10, DayOf(z) % 10>>

\* today.replace(day=1)
FirstOfMonth(z) == z - (DayOf(z) - 1)

(***************************************************************************)
(* Bounds and input sets                                                   *)
(***************************************************************************)
MaxEvents == 2      \* events delivered by the two calendar feeds together
Months == 1         \* the "months" argument of the pipeline runs
MaxGridMonths == 14 \* longest grid handed to generate_excel, in 30-day months
MaxShortSpan == 9   \* longest short grid handed to generate_excel, in days

US == "US"
France == "France"
HOLIDAY_US == "_HOLIDAY_US"
HOLIDAY_FRANCE == "_HOLIDAY_FRANCE"
HOLIDAY_COMPANY == "_HOLIDAY_COMPANY"

Emp(n, loc, reps) == [name |-> n, location |-> loc, reports |-> reps]

\* employees.json of the pipeline runs: Alice -> [Bob -> [Cy], Dee]
Forest1 ==
    <<Emp("Alice", US, <<Emp("Bob", France, <<Emp("Cy", US, <<>>)>>),
                         Emp("Dee", "Other", <<>>)>>)>>

\* two roots, the second with a chain below it
Forest2 ==
    <<Emp("Alice", US, <<>>),
      Emp("Bob", France, <<Emp("Cy", US, <<Emp("Dee", France, <<>>)>>)>>)>>

\* A -> [B, C], B -> [D]
Forest3 ==
    <<Emp("Alice", US, <<Emp("Bob", US, <<Emp("Dee", France, <<>>)>>),
                         Emp("Cy", France, <<>>)>>)>>

Rosters == {<<>>, Forest1}
GridRosters == {Forest1, Forest2, Forest3}

\* the titles on the PTO calendar ("P") and on the travel calendar ("T")
EventNames(type) == IF type = "P" THEN {"ev1", "ev2"} ELSE {"ev2"}
Todays == {Ordinal(2024, 1, 10)}
\* [start_date, end_date) of the events the feeds can deliver: two days across
\* the first day of January, no day at all, the 31st of January alone
EventSpans ==
    { <<Ordinal(2023, 12, 31), Ordinal(2024, 1, 2)>>,
      <<Ordinal(2024, 1, 30), Ordinal(2024, 1, 30)>>,
      <<Ordinal(2024, 1, 31), Ordinal(2024, 2, 1)>> }

(***************************************************************************)
(* Python values returned by the resolver for one event title              *)
(***************************************************************************)
PyVal(t, items) == [t |-> t, items |-> items]
PyList(items) == PyVal("list", items)
PyNone == PyVal("None", <<>>)
Unset == PyVal("unset", <<>>)

\* well-formed answers: lists of employee names and holiday tokens
TargetLists ==
    { <<>>, <<"Alice", "Bob">>, <<"Zed">>,
      <<HOLIDAY_US>>, <<HOLIDAY_FRANCE>>, <<HOLIDAY_COMPANY>> }

\* values that are not lists of strings: null, a number, a string, an object
MalformedValues ==
    { PyNone, PyVal("int", <<>>), PyVal("str", <<"B", "o", "b">>),
      PyVal("dict", <<"Alice">>) }

Absent == PyVal("absent", <<>>)

\* what the resolver can answer for a title (Absent: the title is left out):
\* anything for "ev1", a list with Alice in it for "ev2"
ResolverValues(title) ==
    IF title = "ev1"
    THEN {PyList(l) : l \in TargetLists} \cup MalformedValues \cup {Absent}
    ELSE {PyList(<<"Alice">>), PyList(<<"Alice", HOLIDAY_US>>), Absent}

\* bool(v): None, 0-length containers are falsy; the modelled number is not 0
Truthy(v) == v.t = "int" \/ Len(v.items) > 0

\* iter(v): list elements, characters of a string, keys of a dict
Iterable(v) == v.t \in {"list", "str", "dict"}

(***************************************************************************)
(* State                                                                   *)
(***************************************************************************)
VARIABLES
    pc,                      \* position in main() / generate_excel()
    hierarchical_employees,  \* the forest read from employees.json
    employees,               \* flatten_employees(...), later with day lists
    all_events,              \* pto_events + travel_events
    start_date, end_date,    \* the reporting window
    events_in_range,
    llm_response,            \* what the resolver answered
    event_to_employee_map,
    unmatched_event_names,
    ev_idx,                  \* position of the loop of step 7
    processed_data,          \* status matrix: set of [emp, day, status]
    weekdays,
    dates_by_month_week,     \* insertion-ordered dict of dicts of lists
    current_col,
    month_idx,               \* position of the loop over months.items()
    row3,                    \* day header cells: [col, day, value]
    merged,                  \* merged header cells: [row, first, last, value]
    current_row,
    root_idx,                \* position of the loop over the roots
    rows,                    \* employee rows: [row, name, indent, fills]
    saved                    \* wb.save(file_path) happened

vars == <<pc, hierarchical_employees, employees, all_events, start_date, end_date,
          events_in_range, llm_response, event_to_employee_map,
          unmatched_event_names, ev_idx, processed_data, weekdays,
          dates_by_month_week, current_col, month_idx, row3, merged,
          current_row, root_idx, rows, saved>>

pipelineVars == <<hierarchical_employees, employees, all_events, start_date, end_date,
                  events_in_range, llm_response, event_to_employee_map,
                  unmatched_event_names, ev_idx, processed_data>>

excelVars == <<weekdays, dates_by_month_week, current_col, month_idx, row3, merged,
               current_row, root_idx, rows, saved>>

NoResponse == [kind |-> "none", entries |-> {}]
EmptyMap == [kind |-> "object", entries |-> {}]

(***************************************************************************)
(* Steps 1-3 of main(): roster, feeds, window                              *)
(***************************************************************************)
RECURSIVE parse_reports(_)
parse_reports(report_list) ==
    IF report_list = <<>> THEN <<>>
    ELSE LET person == Head(report_list)
         IN  <<[name |-> person.name, location |-> person.location,
                PTO |-> <<>>, Travel |-> <<>>, Holiday |-> <<>>]>>
             \o parse_reports(person.reports)
             \o parse_reports(Tail(report_list))

flatten_employees(forest) == parse_reports(forest)

LoadEmployees ==
    /\ pc = "load_employees"
    /\ \E forest \in Rosters :
        /\ hierarchical_employees' = forest
        /\ IF forest = <<>>
           THEN /\ pc' = "exited"
                /\ employees' = employees
           ELSE /\ pc' = "load_events"
                /\ employees' = flatten_employees(forest)
    /\ UNCHANGED <<all_events, start_date, end_date, events_in_range, llm_response,
                   event_to_employee_map, unmatched_event_names, ev_idx,
                   processed_data>>
    /\ UNCHANGED excelVars

\* what load_calendar_events can return for one feed
EventsOf(type) ==
    { [name |-> n, start_date |-> span[1], end_date |-> span[2], type |-> type,
       employee |-> Unset] :
        n \in EventNames(type), span \in EventSpans }

Feeds(type) ==
    UNION { [1..n -> EventsOf(type)] : n \in 0..MaxEvents }

LoadEvents ==
    /\ pc = "load_events"
    /\ \E pto_events \in Feeds("P"), travel_events \in Feeds("T") :
        /\ Len(pto_events) + Len(travel_events) <= MaxEvents
        /\ all_events' = pto_events \o travel_events
    /\ pc' = "define_range"
    /\ UNCHANGED <<hierarchical_employees, employees, start_date, end_date,
                   events_in_range, llm_response, event_to_employee_map,
                   unmatched_event_names, ev_idx, processed_data>>
    /\ UNCHANGED excelVars

\* start_date + timedelta(days=args.months * 30)
WindowEnd(first, months) == first + months * 30

DefineRange ==
    /\ pc = "define_range"
    /\ \E today \in Todays :
        /\ start_date' = FirstOfMonth(today)
        /\ end_date' = WindowEnd(FirstOfMonth(today), Months)
    /\ pc' = "filter"
    /\ UNCHANGED <<hierarchical_employees, employees, all_events,
                   events_in_range, llm_response, event_to_employee_map,
                   unmatched_event_names, ev_idx, processed_data>>
    /\ UNCHANGED excelVars

(***************************************************************************)
(* Step 4: events overlapping the window                                   *)
(***************************************************************************)
\* variant: an event that starts on end_date is kept
InRangeUpToEnd(event, first, last) ==
    event.start_date <= last /\ event.end_date > first

\* event['start_date'] < end_date and event['end_date'] > start_date
InRange(event, first, last) ==
    event.start_date < last /\ event.end_date > first

FilterEvents ==
    /\ pc = "filter"
    /\ LET kept == SelectSeq(all_events, LAMBDA e : InRange(e, start_date, end_date))
       IN  /\ events_in_range' = kept
           /\ pc' = IF kept = <<>> THEN "finished" ELSE "llm"
    /\ UNCHANGED <<hierarchical_employees, employees, all_events, start_date,
                   end_date, llm_response, event_to_employee_map,
                   unmatched_event_names, ev_idx, processed_data>>
    /\ UNCHANGED excelVars

(***************************************************************************)
(* Step 5: the resolver (get_employee_event_mappings_from_llm)             *)
(***************************************************************************)
\* a JSON object over some of the titles asked about
ObjectResponses(names) ==
    { [kind |-> "object",
       entries |-> {[k |-> n, v |-> f[n]] : n \in {m \in names : f[m] # Absent}}] :
        f \in {g \in [names -> UNION {ResolverValues(n) : n \in names}] :
                  \A n \in names : g[n] \in ResolverValues(n)} }

\* text that is no JSON, a JSON array, or a JSON object
Responses(names) ==
    {[kind |-> "garbage", entries |-> {}], [kind |-> "array", entries |-> {}]}
        \cup ObjectResponses(names)

\* try: json.loads(cleaned_json) ... except Exception: return {}
ParseResponse(response) ==
    IF response.kind = "garbage" THEN EmptyMap ELSE response

UniqueEventNames(events) == {events[i].name : i \in 1..Len(events)}

GetMappings ==
    /\ pc = "llm"
    /\ \E response \in Responses(UniqueEventNames(events_in_range)) :
        /\ llm_response' = response
        /\ event_to_employee_map' = ParseResponse(response)
    /\ pc' = "associate"
    /\ UNCHANGED <<hierarchical_employees, employees, all_events, start_date,
                   end_date, events_in_range, unmatched_event_names, ev_idx,
                   processed_data>>
    /\ UNCHANGED excelVars

(***************************************************************************)
(* Step 6: attach the resolved targets to the events                       *)
(***************************************************************************)
\* dict.get(key): the value, or None
DictGet(map, key) ==
    IF \E e \in map.entries : e.k = key
    THEN (CHOOSE e \in map.entries : e.k = key).v
    ELSE PyNone

\* variant: "if mapped_employees:", an empty list counts as unmatched too
MappedOrEmptyAlsoEmptyList(map, event) ==
    LET mapped_employees == DictGet(map, event.name)
    IN  IF mapped_employees # PyNone /\ mapped_employees # PyList(<<>>)
        THEN [employee |-> mapped_employees, unmatched |-> FALSE]
        ELSE [employee |-> PyList(<<>>), unmatched |-> TRUE]

\* lines 263-268 for one event
MappedOrEmpty(map, event) ==
    LET mapped_employees == DictGet(map, event.name)
    IN  IF mapped_employees # PyNone
        THEN [employee |-> mapped_employees, unmatched |-> FALSE]
        ELSE [employee |-> PyList(<<>>), unmatched |-> TRUE]

Associate ==
    /\ pc = "associate"
    /\ IF event_to_employee_map.kind # "object"
       THEN \* a list has no attribute 'get': AttributeError, the run aborts
            /\ pc' = "error"
            /\ UNCHANGED <<events_in_range, unmatched_event_names>>
       ELSE /\ events_in_range' =
                [i \in 1..Len(events_in_range) |->
                    [events_in_range[i] EXCEPT !.employee =
                        MappedOrEmpty(event_to_employee_map, events_in_range[i]).employee]]
            /\ unmatched_event_names' =
                { events_in_range[i].name : i \in
                    { j \in 1..Len(events_in_range) :
                        MappedOrEmpty(event_to_employee_map, events_in_range[j]).unmatched } }
            /\ pc' = "init_lists"
    /\ UNCHANGED <<hierarchical_employees, employees, all_events, start_date,
                   end_date, llm_response, event_to_employee_map, ev_idx,
                   processed_data>>
    /\ UNCHANGED excelVars

(***************************************************************************)
(* Step 7: per-employee PTO / Travel / Holiday day lists                   *)
(***************************************************************************)
InitLists ==
    /\ pc = "init_lists"
    /\ employees' = [i \in 1..Len(employees) |->
                        [employees[i] EXCEPT !.PTO = <<>>, !.Travel = <<>>,
                                             !.Holiday = <<>>]]
    /\ ev_idx' = 1
    /\ pc' = "populate"
    /\ UNCHANGED <<hierarchical_employees, all_events, start_date, end_date,
                   events_in_range, llm_response, event_to_employee_map,
                   unmatched_event_names, processed_data>>
    /\ UNCHANGED excelVars

\* variant: range((end - start).days + 1), the end date included
EventDatesInclusive(event) ==
    LET n == event.end_date - event.start_date + 1
    IN  IF n <= 0 THEN <<>> ELSE [i \in 1..n |-> event.start_date + (i - 1)]

\* [start + timedelta(days=i) for i in range((end - start).days)]
EventDates(event) ==
    LET n == event.end_date - event.start_date
    IN  IF n <= 0 THEN <<>> ELSE [i \in 1..n |-> event.start_date + (i - 1)]

\* employee_map = {emp['name']: emp for emp in employees}: the last one wins
EmployeeMapHas(emps, n) == \E i \in 1..Len(emps) : emps[i].name = n

EmployeeMapIndex(emps, n) ==
    CHOOSE i \in 1..Len(emps) :
        /\ emps[i].name = n
        /\ \A j \in 1..Len(emps) : emps[j].name = n => j <= i

\* variant: a holiday token covers everyone, whatever the location
HolidayScopeAll(emp, tag) == tag \in {HOLIDAY_US, HOLIDAY_FRANCE, HOLIDAY_COMPANY}

\* the employees a holiday token covers (lines 288-293)
HolidayScope(emp, tag) ==
    \/ tag = HOLIDAY_US /\ emp.location = "US"
    \/ tag = HOLIDAY_FRANCE /\ emp.location = "France"
    \/ tag = HOLIDAY_COMPANY

\* lines 288-298 for one name_or_tag
ApplyTarget(emps, name_or_tag, event, event_dates) ==
    IF name_or_tag \in {HOLIDAY_US, HOLIDAY_FRANCE, HOLIDAY_COMPANY}
    THEN [i \in 1..Len(emps) |->
            IF HolidayScope(emps[i], name_or_tag)
            THEN [emps[i] EXCEPT !.Holiday = @ \o event_dates]
            ELSE emps[i]]
    ELSE IF EmployeeMapHas(emps, name_or_tag)
    THEN LET k == EmployeeMapIndex(emps, name_or_tag)
         IN  IF event.type = "P"
             THEN [emps EXCEPT ![k].PTO = @ \o event_dates]
             ELSE IF event.type = "T"
             THEN [emps EXCEPT ![k].Travel = @ \o event_dates]
             ELSE emps
    ELSE emps

RECURSIVE ApplyTargets(_, _, _, _)
ApplyTargets(emps, targets, event, event_dates) ==
    IF targets = <<>> THEN emps
    ELSE ApplyTargets(ApplyTarget(emps, Head(targets), event, event_dates),
                      Tail(targets), event, event_dates)

\* one iteration of "for event in events_in_range" (lines 281-298)
Populate ==
    /\ pc = "populate"
    /\ ev_idx <= Len(events_in_range)
    /\ LET event == events_in_range[ev_idx]
       IN  IF ~Truthy(event.employee)
           THEN /\ employees' = employees
                /\ ev_idx' = ev_idx + 1
                /\ pc' = IF ev_idx = Len(events_in_range) THEN "process" ELSE "populate"
           ELSE IF ~Iterable(event.employee)
           THEN \* 'int' object is not iterable: TypeError, the run aborts
                /\ pc' = "error"
                /\ UNCHANGED <<employees, ev_idx>>
           ELSE /\ employees' = ApplyTargets(employees, event.employee.items, event,
                                             EventDates(event))
                /\ ev_idx' = ev_idx + 1
                /\ pc' = IF ev_idx = Len(events_in_range) THEN "process" ELSE "populate"
    /\ UNCHANGED <<hierarchical_employees, all_events, start_date, end_date,
                   events_in_range, llm_response, event_to_employee_map,
                   unmatched_event_names, processed_data>>
    /\ UNCHANGED excelVars

(***************************************************************************)
(* Step 8: the status matrix                                               *)
(***************************************************************************)
\* processed_data[name][day] = code
MatrixSet(pd, n, day, code) ==
    {x \in pd : ~(x.emp = n /\ x.day = day)}
        \cup {[emp |-> n, day |-> day, status |-> code]}

RECURSIVE MatrixSetAll(_, _, _, _)
MatrixSetAll(pd, n, days, code) ==
    IF days = <<>> THEN pd
    ELSE MatrixSetAll(MatrixSet(pd, n, Head(days), code), n, Tail(days), code)

\* variant: the Holiday list is written first, so PTO and Travel overwrite it
ProcessEmployeeHolidayFirst(pd, emp) ==
    MatrixSetAll(MatrixSetAll(MatrixSetAll(pd, emp.name, emp.Holiday, "H"),
                              emp.name, emp.PTO, "P"),
                 emp.name, emp.Travel, "T")

\* lines 304-306 for one employee
ProcessEmployee(pd, emp) ==
    MatrixSetAll(MatrixSetAll(MatrixSetAll(pd, emp.name, emp.PTO, "P"),
                              emp.name, emp.Travel, "T"),
                 emp.name, emp.Holiday, "H")

RECURSIVE ProcessAll(_, _)
ProcessAll(pd, emps) ==
    IF emps = <<>> THEN pd
    ELSE ProcessAll(ProcessEmployee(pd, Head(emps)), Tail(emps))

ProcessData ==
    /\ pc = "process"
    /\ processed_data' = ProcessAll({}, employees)
    /\ pc' = "excel_group"
    /\ UNCHANGED <<hierarchical_employees, employees, all_events, start_date,
                   end_date, events_in_range, llm_response, event_to_employee_map,
                   unmatched_event_names, ev_idx>>
    /\ UNCHANGED excelVars

(***************************************************************************)
(* generate_excel: weekday columns and the month / week grouping           *)
(***************************************************************************)
\* [start_date + timedelta(days=i) for i in range((end_date - start_date).days + 1)]
AllDates(first, last) ==
    LET n == last - first + 1
    IN  IF n <= 0 THEN <<>> ELSE [i \in 1..n |-> first + (i - 1)]

\* variant: d.weekday() < 6, Saturdays kept
IsWeekdayMonToSat(d) == Weekday(d) < 6

\* d.weekday() < 5
IsWeekday(d) == Weekday(d) < 5

Weekdays(first, last) == SelectSeq(AllDates(first, last), IsWeekday)

\* position of a key in an insertion-ordered dict, 0 when it is missing
KeyIndex(dict, key) ==
    LET hits == {i \in 1..Len(dict) : dict[i].key = key}
    IN  IF hits = {} THEN 0 ELSE CHOOSE i \in hits : TRUE

\* dates_by_month_week[month][week].append(d) on defaultdicts
WeeksAppend(weeks, week, d) ==
    LET j == KeyIndex(weeks, week)
    IN  IF j = 0 THEN Append(weeks, [key |-> week, days |-> <<d>>])
        ELSE [weeks EXCEPT ![j].days = Append(@, d)]

MonthWeekAppend(dict, d) ==
    LET month == MonthKey(d)
        week == WeekKey(d)
        i == KeyIndex(dict, month)
    IN  IF i = 0
        THEN Append(dict, [key |-> month, weeks |-> WeeksAppend(<<>>, week, d)])
        ELSE [dict EXCEPT ![i].weeks = WeeksAppend(@, week, d)]

\* "for d in weekdays: ...append(d)" over days[lo..hi], in order: the first
\* half of the days, then the second half on the dict the first half left
\* (the singleton set makes TLC work out that dict before going on)
RECURSIVE AppendDays(_, _, _, _)
AppendDays(dict, days, lo, hi) ==
    IF lo > hi THEN dict
    ELSE IF lo = hi THEN MonthWeekAppend(dict, days[lo])
    ELSE CHOOSE result \in
            { AppendDays(left, days, (lo + hi) \div 2 + 1, hi) :
                left \in {AppendDays(dict, days, lo, (lo + hi) \div 2)} } : TRUE

GroupByMonthWeek(days) == AppendDays(<<>>, days, 1, Len(days))

\* lines 141-152
GroupDates ==
    /\ pc = "excel_group"
    /\ weekdays' = Weekdays(start_date, end_date)
    /\ dates_by_month_week' = GroupByMonthWeek(Weekdays(start_date, end_date))
    /\ current_col' = 2
    /\ month_idx' = 1
    /\ pc' = "excel_header"
    /\ UNCHANGED pipelineVars
    /\ UNCHANGED <<row3, merged, current_row, root_idx, rows, saved>>

(***************************************************************************)
(* generate_excel: the three header rows                                   *)
(***************************************************************************)
\* lines 158-162: the day cells of one week, from column col on
DayCells(days, col) ==
    [i \in 1..Len(days) |->
        [col |-> col + (i - 1), day |-> days[i], value |-> DayLabel(days[i])]]

\* lines 164-168: the merged week cell
WeekMerge(week, days, week_start_col, col_after) ==
    IF Len(days) > 0
    THEN <<[row |-> 2, first |-> week_start_col, last |-> col_after - 1,
            value |-> week]>>
    ELSE <<>>

\* lines 156-168: the weeks of one month, written after what out holds
\* (out.col is current_col)
WriteWeek(out, w) ==
    [col |-> out.col + Len(w.days),
     cells |-> out.cells \o DayCells(w.days, out.col),
     merges |-> out.merges \o WeekMerge(w.key, w.days, out.col, out.col + Len(w.days))]

RECURSIVE WriteWeeks(_, _)
WriteWeeks(weeks, out) ==
    IF weeks = <<>> THEN out
    ELSE WriteWeeks(Tail(weeks), WriteWeek(out, Head(weeks)))

\* lines 170-174: the merged month cell
MonthMerge(month, month_start_col, col_after) ==
    IF (col_after - 1) >= month_start_col
    THEN <<[row |-> 1, first |-> month_start_col, last |-> col_after - 1,
            value |-> month]>>
    ELSE <<>>

\* one iteration of "for month, weeks in dates_by_month_week.items()"
WriteMonthHeader ==
    /\ pc = "excel_header"
    /\ month_idx <= Len(dates_by_month_week)
    /\ LET m == dates_by_month_week[month_idx]
           w == WriteWeeks(m.weeks, [col |-> current_col, cells |-> <<>>,
                                     merges |-> <<>>])
       IN  /\ row3' = row3 \o w.cells
           /\ merged' = merged \o w.merges \o MonthMerge(m.key, current_col, w.col)
           /\ current_col' = w.col
    /\ month_idx' = month_idx + 1
    /\ UNCHANGED pipelineVars
    /\ UNCHANGED <<pc, weekdays, dates_by_month_week, current_row, root_idx, rows,
                   saved>>

\* the loop over the months is over: line 177
HeaderDone ==
    /\ pc = "excel_header"
    /\ month_idx > Len(dates_by_month_week)
    /\ current_row' = 4
    /\ root_idx' = 1
    /\ pc' = "excel_rows"
    /\ UNCHANGED pipelineVars
    /\ UNCHANGED <<weekdays, dates_by_month_week, current_col, month_idx, row3,
                   merged, rows, saved>>

(***************************************************************************)
(* generate_excel: the employee rows                                       *)
(***************************************************************************)
\* processed_data.get(employee['name'], {})
EmployeeEvents(pd, n) == {x \in pd : x.emp = n}

\* employee_events.get(report_date, "") and the fill chosen from it
CellFill(employee_events, report_date) ==
    LET hits == {x \in employee_events : x.day = report_date}
    IN  IF hits = {} THEN "" ELSE (CHOOSE x \in hits : TRUE).status

\* lines 186-197: the cells of one row, col_idx from 2
RowFills(employee_events, days) ==
    [c \in 2..(Len(days) + 1) |-> CellFill(employee_events, days[c - 1])]

\* variant: lines 180-197 without the indent of the name cell
EmployeeRowNoIndent(row, employee, indent_level, pd, days) ==
    [row |-> row, name |-> employee.name, indent |-> 0,
     fills |-> RowFills(EmployeeEvents(pd, employee.name), days)]

\* lines 180-197: the name cell in column 1, indented, and the cells of the row
EmployeeRow(row, employee, indent_level, pd, days) ==
    [row |-> row, name |-> employee.name, indent |-> indent_level,
     fills |-> RowFills(EmployeeEvents(pd, employee.name), days)]

\* write_employee_row(employee, indent_level), entered with the sheet and
\* current_row as out holds them: the employee's row, then current_row += 1,
\* then the rows of the reports, one subtree after the other
RECURSIVE write_employee_row(_, _, _, _, _), WriteReports(_, _, _, _, _)
write_employee_row(out, employee, indent_level, pd, days) ==
    WriteReports([rows |-> Append(out.rows,
                                  EmployeeRow(out.current_row, employee, indent_level,
                                              pd, days)),
                  current_row |-> out.current_row + 1],
                 employee.reports, indent_level + 1, pd, days)

WriteReports(out, reports, indent_level, pd, days) ==
    IF reports = <<>> THEN out
    ELSE WriteReports(write_employee_row(out, Head(reports), indent_level, pd, days),
                      Tail(reports), indent_level, pd, days)

\* one iteration of "for employee in employees: write_employee_row(employee, 0)"
WriteRootRow ==
    /\ pc = "excel_rows"
    /\ root_idx <= Len(hierarchical_employees)
    /\ LET out == write_employee_row([rows |-> rows, current_row |-> current_row],
                                     hierarchical_employees[root_idx], 0,
                                     processed_data, weekdays)
       IN  /\ rows' = out.rows
           /\ current_row' = out.current_row
    /\ root_idx' = root_idx + 1
    /\ UNCHANGED pipelineVars
    /\ UNCHANGED <<pc, weekdays, dates_by_month_week, current_col, month_idx, row3,
                   merged, saved>>

\* lines 208-214, and the end of main()
Save ==
    /\ pc = "excel_rows"
    /\ root_idx > Len(hierarchical_employees)
    /\ saved' = TRUE
    /\ pc' = "finished"
    /\ UNCHANGED pipelineVars
    /\ UNCHANGED <<weekdays, dates_by_month_week, current_col, month_idx, row3,
                   merged, current_row, root_idx, rows>>

(***************************************************************************)
(* Specifications                                                          *)
(***************************************************************************)
ExcelInit ==
    /\ weekdays = <<>>
    /\ dates_by_month_week = <<>>
    /\ current_col = 0
    /\ month_idx = 0
    /\ row3 = <<>>
    /\ merged = <<>>
    /\ current_row = 0
    /\ root_idx = 0
    /\ rows = <<>>
    /\ saved = FALSE

\* the process starts main()
Init ==
    /\ pc = "load_employees"
    /\ hierarchical_employees = <<>>
    /\ employees = <<>>
    /\ all_events = <<>>
    /\ start_date = 0
    /\ end_date = 0
    /\ events_in_range = <<>>
    /\ llm_response = NoResponse
    /\ event_to_employee_map = EmptyMap
    /\ unmatched_event_names = {}
    /\ ev_idx = 0
    /\ processed_data = {}
    /\ ExcelInit

Next ==
    \/ LoadEmployees \/ LoadEvents \/ DefineRange \/ FilterEvents \/ GetMappings
    \/ Associate \/ InitLists \/ Populate \/ ProcessData
    \/ GroupDates \/ WriteMonthHeader \/ HeaderDone \/ WriteRootRow \/ Save

Spec == Init /\ [][Next]_vars

(***************************************************************************)
(* generate_excel on its own: any window, any forest                       *)
(***************************************************************************)
GridStarts ==
    { Ordinal(2023, 12, 1), Ordinal(2024, 1, 1), Ordinal(2024, 2, 29),
      Ordinal(2024, 11, 1), Ordinal(2024, 12, 28) }

\* end_date - start_date: a few days, end before start included, or 30-day months
GridSpans == (-2..MaxShortSpan) \cup {30 * m : m \in 1..MaxGridMonths}

\* a status matrix with entries in the window, before it, and none for Dee
GridMatrix(first) ==
    { [emp |-> "Alice", day |-> first, status |-> "P"],
      [emp |-> "Alice", day |-> first - 1, status |-> "T"],
      [emp |-> "Bob", day |-> first + 1, status |-> "H"],
      [emp |-> "Cy", day |-> first + 3, status |-> "T"] }

InitGrid ==
    /\ pc = "excel_group"
    /\ hierarchical_employees \in GridRosters
    /\ employees = flatten_employees(hierarchical_employees)
    /\ all_events = <<>>
    /\ start_date \in GridStarts
    /\ end_date \in {start_date + n : n \in GridSpans}
    /\ events_in_range = <<>>
    /\ llm_response = NoResponse
    /\ event_to_employee_map = EmptyMap
    /\ unmatched_event_names = {}
    /\ ev_idx = 0
    /\ processed_data \in {{}, GridMatrix(start_date)}
    /\ ExcelInit

NextGrid == GroupDates \/ WriteMonthHeader \/ HeaderDone \/ WriteRootRow \/ Save

SpecGrid == InitGrid /\ [][NextGrid]_vars

(***************************************************************************)
(* Properties of the pipeline (specification Spec)                         *)
(***************************************************************************)
Days(list) == {list[i] : i \in DOMAIN list}

\* step 8 has run: processed_data is the final status matrix
MatrixBuilt ==
    \/ pc \in {"excel_group", "excel_header", "excel_rows"}
    \/ pc = "finished" /\ saved

\* step 6 has run without an exception
Associated ==
    \/ pc \in {"init_lists", "populate", "process"}
    \/ MatrixBuilt

StatusesAt(n, d) == {x.status : x \in {y \in processed_data : y.emp = n /\ y.day = d}}

RosterNames == {employees[i].name : i \in 1..Len(employees)}

\* the status the precedence rule gives an employee on a day
Precedence(emp, d) ==
    IF d \in Days(emp.Holiday) THEN {"H"}
    ELSE IF d \in Days(emp.Travel) THEN {"T"}
    ELSE IF d \in Days(emp.PTO) THEN {"P"}
    ELSE {}

\* C1: in the final status matrix the entry of employee e on day d is Holiday
\* if d is in e's Holiday list, otherwise Travel if d is in e's Travel list,
\* otherwise PTO if d is in e's PTO list, and absent otherwise.
C1_StatusPrecedence ==
    MatrixBuilt =>
        /\ \A x \in processed_data : x.emp \in RosterNames
        /\ \A i \in 1..Len(employees) :
            LET emp == employees[i]
            IN  \A d \in Days(emp.PTO) \cup Days(emp.Travel) \cup Days(emp.Holiday)
                         \cup {x.day : x \in processed_data} :
                    StatusesAt(emp.name, d) = Precedence(emp, d)

\* an employee has a day in all three lists, and one day that is PTO and Travel
C1_Witness ==
    /\ MatrixBuilt
    /\ \E i \in 1..Len(employees) :
        /\ \E d \in Days(employees[i].PTO) :
            /\ d \in Days(employees[i].Travel)
            /\ d \in Days(employees[i].Holiday)
            /\ StatusesAt(employees[i].name, d) = {"H"}
    /\ \E i \in 1..Len(employees) :
        /\ \E d \in Days(employees[i].PTO) :
            /\ d \notin Days(employees[i].Holiday)
            /\ StatusesAt(employees[i].name, d) = {"P"}

\* C2, as claimed: every key of the status matrix has its day inside the
\* reporting window [start_date, end_date].
C2_DaysInsideWindow ==
    MatrixBuilt =>
        \A x \in processed_data : start_date <= x.day /\ x.day <= end_date

\* C2, amended: every key of the status matrix has a roster employee, and its
\* day is a day [start_date, end_date) of a fetched event that overlaps the
\* window (starts before the window's end_date and ends after its start_date);
\* the days of such an event are not clipped to the window.
C2_DaysOfOverlappingEvents ==
    MatrixBuilt =>
        \A x \in processed_data :
            /\ x.emp \in RosterNames
            /\ \E i \in 1..Len(all_events) :
                /\ all_events[i].start_date <= x.day
                /\ x.day < all_events[i].end_date
                /\ all_events[i].start_date < end_date
                /\ all_events[i].end_date > start_date

\* the matrix holds a day before the window, and a filtered event has left none
C2_Witness ==
    /\ MatrixBuilt
    /\ \E x \in processed_data : x.day < start_date
    /\ \E i \in 1..Len(all_events) :
        /\ all_events[i].start_date >= end_date
        /\ all_events[i].end_date > all_events[i].start_date

\* the target list the resolver gave an event: none, or the list
Resolved(event) == DictGet(event_to_employee_map, event.name)

\* the employees a token stands for
Covers(tag, emp) ==
    \/ tag = emp.name
    \/ tag = "_HOLIDAY_US" /\ emp.location = "US"
    \/ tag = "_HOLIDAY_FRANCE" /\ emp.location = "France"
    \/ tag = "_HOLIDAY_COMPANY"

\* every matrix entry comes from an in-range event with a target for it
EntriesComeFromTargets ==
    \A x \in processed_data :
        \E i \in 1..Len(events_in_range), j \in 1..Len(employees) :
            LET event == events_in_range[i]
            IN  /\ employees[j].name = x.emp
                /\ event.start_date <= x.day /\ x.day < event.end_date
                /\ \E k \in 1..Len(Resolved(event).items) :
                       Covers(Resolved(event).items[k], employees[j])

\* C3, as claimed: an in-range event whose target list is empty (its name is
\* missing from the mapping, or mapped to an empty list) contributes no entry
\* and its name is recorded as unmatched; no event with a non-empty target list
\* is recorded.
C3_EmptyIsUnmatched ==
    /\ Associated =>
        \A i \in 1..Len(events_in_range) :
            (Len(Resolved(events_in_range[i]).items) = 0)
                <=> (events_in_range[i].name \in unmatched_event_names)
    /\ MatrixBuilt => EntriesComeFromTargets

\* C3, amended: an in-range event whose name is missing from the mapping (or
\* mapped to null) contributes no entry and its name is recorded as unmatched;
\* one mapped to an empty list contributes no entry and is not recorded; no
\* event with a non-empty target list is recorded.
C3_MissingIsUnmatched ==
    /\ Associated =>
        \A i \in 1..Len(events_in_range) :
            (Resolved(events_in_range[i]) = PyNone)
                <=> (events_in_range[i].name \in unmatched_event_names)
    /\ MatrixBuilt => EntriesComeFromTargets

\* one title is missing and recorded, another mapped to [] and not recorded,
\* and neither left an entry
C3_Witness ==
    /\ MatrixBuilt
    /\ processed_data = {}
    /\ unmatched_event_names # {}
    /\ \E i \in 1..Len(events_in_range) :
        /\ Resolved(events_in_range[i]) = PyList(<<>>)
        /\ events_in_range[i].name \notin unmatched_event_names
        /\ events_in_range[i].end_date > events_in_range[i].start_date
    /\ \E i \in 1..Len(events_in_range) :
        /\ events_in_range[i].name \in unmatched_event_names
        /\ events_in_range[i].end_date > events_in_range[i].start_date

\* the response is not a JSON object of lists of strings
Malformed(response) ==
    \/ response.kind \in {"garbage", "array"}
    \/ \E e \in response.entries : e.v.t # "list"

\* C4: when the resolver's response is not a well-formed mapping, the run uses
\* an empty mapping, every in-range event is unmatched, no matrix entry is
\* created, and the run still completes by rendering the grid.
C4_MalformedFallsBack ==
    Malformed(llm_response) =>
        /\ pc # "error"
        /\ event_to_employee_map = EmptyMap
        /\ Associated => unmatched_event_names = UniqueEventNames(events_in_range)
        /\ MatrixBuilt => processed_data = {}

\* the calendar days d of an event with start_date <= d < end_date, in order
Span(event) ==
    [i \in 1..(IF event.end_date > event.start_date
               THEN event.end_date - event.start_date ELSE 0) |->
        event.start_date + i - 1]

RECURSIVE Times(_, _)
Times(list, n) == IF n = 0 THEN <<>> ELSE list \o Times(list, n - 1)

HolidayTokens == {"_HOLIDAY_US", "_HOLIDAY_FRANCE", "_HOLIDAY_COMPANY"}

\* how many of the targets, among the given tokens, stand for the employee
Count(targets, emp, among) ==
    Cardinality({k \in 1..Len(targets) : targets[k] \in among /\ Covers(targets[k], emp)})

\* the loop of step 7 handles the event at ev_idx in this step
Handles(event) ==
    /\ pc = "populate"
    /\ ev_idx' = ev_idx + 1
    /\ event = events_in_range[ev_idx]
    /\ event.employee.t = "list"

\* C5: an in-range event resolved to a list of roster employee names adds, to
\* the list of its type (PTO or Travel) of each named employee, exactly the
\* days d with start_date <= d < end_date, and changes nothing for any other
\* employee; with end_date <= start_date it adds nothing.
C5_Step ==
    \A event \in {events_in_range[i] : i \in {ev_idx} \cap DOMAIN events_in_range} :
        ( /\ Handles(event)
          /\ event.employee.items # <<>>
          /\ \A k \in 1..Len(event.employee.items) :
                event.employee.items[k] \in RosterNames ) =>
            /\ Len(employees') = Len(employees)
            /\ \A i \in 1..Len(employees) :
                LET added == Times(Span(event),
                                   Count(event.employee.items, employees[i], RosterNames))
                IN  employees'[i] =
                        [employees[i] EXCEPT
                            !.PTO = IF event.type = "P" THEN @ \o added ELSE @,
                            !.Travel = IF event.type = "T" THEN @ \o added ELSE @]
            /\ event.end_date <= event.start_date => employees' = employees

C5_NamedEmployeesGetEventDays == [][C5_Step]_vars

ListsOf(n) ==
    LET i == CHOOSE i \in 1..Len(employees) : employees[i].name = n
    IN  <<employees[i].PTO, employees[i].Travel, employees[i].Holiday>>

\* a two-day PTO event for Alice and Bob and an event without days for Alice
\* have been handled: Alice and Bob hold the two days, Cy holds nothing
C5_Witness ==
    /\ pc = "process"
    /\ \E i, j \in 1..Len(events_in_range) :
        /\ events_in_range[i].employee = PyList(<<"Alice", "Bob">>)
        /\ events_in_range[i].type = "P"
        /\ events_in_range[i].end_date = events_in_range[i].start_date + 2
        /\ events_in_range[j].employee = PyList(<<"Alice">>)
        /\ events_in_range[j].end_date <= events_in_range[j].start_date
        /\ ListsOf("Alice") = <<Span(events_in_range[i]), <<>>, <<>>>>
        /\ ListsOf("Bob") = <<Span(events_in_range[i]), <<>>, <<>>>>
        /\ ListsOf("Cy") = <<<<>>, <<>>, <<>>>>

\* the names of an employee forest, at every depth
RECURSIVE ForestNames(_)
ForestNames(forest) ==
    IF forest = <<>> THEN {}
    ELSE {Head(forest).name} \cup ForestNames(Head(forest).reports)
            \cup ForestNames(Tail(forest))

\* C6: an in-range event resolved to a holiday scope token adds its days to
\* the Holiday list of exactly the employees in scope (_HOLIDAY_US: location
\* US; _HOLIDAY_FRANCE: location France; _HOLIDAY_COMPANY: everyone), whatever
\* the event's type, and the roster holds the employees of every depth.
C6_Step ==
    \A event \in {events_in_range[i] : i \in {ev_idx} \cap DOMAIN events_in_range} :
        ( /\ Handles(event)
          /\ \E k \in 1..Len(event.employee.items) :
                event.employee.items[k] \in HolidayTokens ) =>
            /\ RosterNames = ForestNames(hierarchical_employees)
            /\ Len(employees') = Len(employees)
            /\ \A i \in 1..Len(employees) :
                /\ employees'[i].Holiday =
                      employees[i].Holiday
                          \o Times(Span(event),
                                   Count(event.employee.items, employees[i], HolidayTokens))
                /\ (\A k \in 1..Len(event.employee.items) :
                        event.employee.items[k] \in HolidayTokens)
                   => /\ employees'[i].PTO = employees[i].PTO
                      /\ employees'[i].Travel = employees[i].Travel

C6_HolidayScopes == [][C6_Step]_vars

\* a Travel event resolved to Alice and _HOLIDAY_US, and a PTO event resolved
\* to a holiday token alone, have been handled: Cy, US, two levels down, holds
\* holidays and nothing else, and so does Dee, in neither country
C6_Witness ==
    /\ pc = "process"
    /\ \E i, j \in 1..Len(events_in_range) :
        /\ events_in_range[i].type = "T"
        /\ events_in_range[i].employee = PyList(<<"Alice", "_HOLIDAY_US">>)
        /\ events_in_range[i].end_date > events_in_range[i].start_date
        /\ events_in_range[j].type = "P"
        /\ events_in_range[j].employee = PyList(<<"_HOLIDAY_COMPANY">>)
        /\ events_in_range[j].end_date > events_in_range[j].start_date
        /\ ListsOf("Cy") = <<<<>>, <<>>, ListsOf("Cy")[3]>>
        /\ Days(ListsOf("Cy")[3]) =
              Days(Span(events_in_range[i])) \cup Days(Span(events_in_range[j]))
        /\ Days(ListsOf("Dee")[3]) = Days(Span(events_in_range[j]))
        /\ ListsOf("Alice")[2] = Span(events_in_range[i])

\* what the fetched events say about an employee on a day
Due(emp, d) ==
    UNION { LET targets == Resolved(all_events[i]).items
            IN  { IF targets[k] \in HolidayTokens THEN "H" ELSE all_events[i].type :
                    k \in {k \in 1..Len(targets) : Covers(targets[k], emp)} } :
            i \in {i \in 1..Len(all_events) :
                      /\ all_events[i].start_date <= d
                      /\ d < all_events[i].end_date} }

\* C10: once the grid is written, for every roster employee e and every
\* weekday d of start_date..end_date, the PTO, Travel and Holiday information
\* the fetched events hold for e on d is shown, by precedence, in e's row in
\* the column of d; a cell with no information has no fill.
C10_EveryWindowDayRendered ==
    (pc = "finished" /\ saved /\ ~Malformed(llm_response)) =>
        \A d \in {z \in start_date..end_date : Weekday(z) < 5} :
            \E c \in 1..Len(row3) :
                /\ row3[c].day = d
                /\ \A r \in 1..Len(rows), i \in 1..Len(employees) :
                    employees[i].name = rows[r].name =>
                        LET due == Due(employees[i], d)
                        IN  rows[r].fills[row3[c].col] =
                                IF "H" \in due THEN "H"
                                ELSE IF "T" \in due THEN "T"
                                ELSE IF "P" \in due THEN "P"
                                ELSE ""

(***************************************************************************)
(* Properties of the grid (specification SpecGrid)                         *)
(***************************************************************************)
\* the workbook has been written
Written == pc = "finished" /\ saved

WindowWeekdays == {z \in start_date..end_date : Weekday(z) < 5}

\* C7: the grid has one date column per weekday (Monday to Friday) of
\* start_date..end_date, both ends included, in increasing date order, in the
\* consecutive columns from 2 on, and current_col ends at 2 plus their number;
\* a range without a weekday gets no date column and the workbook is written.
C7_WeekdayColumns ==
    (pc = "excel_rows" \/ Written) =>
        \A window \in {WindowWeekdays} :
            /\ Len(row3) = Cardinality(window)
            /\ \A c \in 1..Len(row3) :
                /\ row3[c].col = c + 1
                /\ row3[c].day \in window
                /\ c > 1 => row3[c - 1].day < row3[c].day
            /\ current_col = 2 + Cardinality(window)
            /\ window = {} => row3 = <<>> /\ merged = <<>>

\* a workbook of four weeks or more, weekends left out
C7_Witness ==
    /\ Written
    /\ Len(row3) >= 20
    /\ Len(row3) < end_date - start_date + 1
    /\ \E c \in 1..Len(row3) : Weekday(row3[c].day) = 4 /\ c < Len(row3)
    /\ current_col = Len(row3) + 2

\* the month and the week of the year a day belongs to
MonthGroup(z) == <<YearOf(z), MonthOf(z)>>
WeekGroup(z) == <<YearOf(z), MonthOf(z), Calendar[z].week>>

\* the positions in weekdays where the month, or the week, changes
MonthStarts ==
    {c \in 1..Len(weekdays) :
        c = 1 \/ MonthGroup(weekdays[c]) # MonthGroup(weekdays[c - 1])}
WeekStarts ==
    {c \in 1..Len(weekdays) :
        c = 1 \/ WeekGroup(weekdays[c]) # WeekGroup(weekdays[c - 1])}

\* the last position of the run that starts at position s
RunEnd(starts, s) ==
    LET later == {t \in starts : t > s}
    IN  IF later = {} THEN Len(weekdays)
        ELSE (CHOOSE t \in later : \A u \in later : t <= u) - 1

InRow1(m) == m.row = 1
InRow2(m) == m.row = 2

\* the merged cells of a header row are the runs, one after the other
Tiles(spans, starts, r) ==
    /\ Len(spans) = Cardinality(starts)
    /\ {[first |-> spans[k].first, last |-> spans[k].last] : k \in 1..Len(spans)}
          = {[first |-> s + 1, last |-> RunEnd(starts, s) + 1] : s \in starts}
    /\ \A k \in 1..Len(spans) :
        /\ spans[k].first = IF k = 1 THEN 2 ELSE spans[k - 1].last + 1
        /\ spans[k].first <= spans[k].last
        /\ k = Len(spans) => spans[k].last = current_col - 1
        /\ spans[k].value = IF r = 1 THEN MonthKey(weekdays[spans[k].first - 1])
                            ELSE WeekKey(weekdays[spans[k].first - 1])

\* C8: the merged week cells of row 2 are pairwise disjoint, each spans the
\* columns of the days of one week group, one to five of them; the week cells
\* of a month concatenate to the month's merged cell of row 1, and the month
\* cells concatenate to columns 2..current_col-1; the groups of the dictionary
\* are the runs of consecutive dates with the same month and week.
C8_HeaderTiling ==
    Written =>
        \A weeks \in {SelectSeq(merged, InRow2)}, months \in {SelectSeq(merged, InRow1)},
           ws \in {WeekStarts}, ms \in {MonthStarts} :
            /\ \A c \in 2..Len(weekdays) : weekdays[c - 1] < weekdays[c]
            /\ Tiles(weeks, ws, 2)
            /\ Tiles(months, ms, 1)
            /\ \A k \in 1..Len(weeks) : weeks[k].last - weeks[k].first + 1 \in 1..5
            /\ \A k \in 1..Len(weeks) :
                \E m \in 1..Len(months) :
                    months[m].first <= weeks[k].first /\ weeks[k].last <= months[m].last
            /\ Len(dates_by_month_week) = Len(months)
            /\ \A m \in 1..Len(dates_by_month_week) :
                \A w \in 1..Len(dates_by_month_week[m].weeks) :
                    LET days == dates_by_month_week[m].weeks[w].days
                    IN  \E s \in ws :
                            /\ weekdays[s] = days[1]
                            /\ days = [i \in 1..(RunEnd(ws, s) - s + 1) |->
                                          weekdays[s + i - 1]]

\* a workbook over more than a year, with a week cut in two by a month's end
C8_Witness ==
    /\ Written
    /\ Cardinality(MonthStarts) >= 13
    /\ \E k \in 2..Len(merged) :
        /\ merged[k].row = 2
        /\ merged[k - 1].row = 1
        /\ merged[k - 2].row = 2
        /\ merged[k].value = merged[k - 2].value
        /\ merged[k].last - merged[k].first + 1 < 5

\* the nodes of an employee forest: the path of child indices to each
RECURSIVE Nodes(_, _)
Nodes(reports, prefix) ==
    UNION { {[path |-> Append(prefix, i), name |-> reports[i].name]}
                \cup Nodes(reports[i].reports, Append(prefix, i)) :
            i \in 1..Len(reports) }

\* p comes before q in pre-order: p is an ancestor of q, or p branches off to
\* an earlier child
Before(p, q) ==
    \/ Len(p) < Len(q) /\ \A i \in 1..Len(p) : p[i] = q[i]
    \/ \E i \in 1..Len(p) :
        /\ i <= Len(q)
        /\ p[i] < q[i]
        /\ \A j \in 1..(i - 1) : p[j] = q[j]

\* C9: the workbook has exactly one row per employee of the forest, in
\* consecutive rows from row 4, in pre-order (an employee, then the subtree of
\* each report in list order), indented by the employee's depth (0 for roots);
\* an employee without any status matrix entry has a row without fills.
C9_RowsInPreOrder ==
    Written =>
        LET nodes == Nodes(hierarchical_employees, <<>>)
        IN  /\ Len(rows) = Cardinality(nodes)
            /\ current_row = 4 + Len(rows)
            /\ \A n \in nodes :
                LET k == 1 + Cardinality({m \in nodes : Before(m.path, n.path)})
                IN  /\ rows[k].row = 3 + k
                    /\ rows[k].name = n.name
                    /\ rows[k].indent = Len(n.path) - 1
                    /\ (\A x \in processed_data : x.emp # n.name)
                       => \A c \in DOMAIN rows[k].fills : rows[k].fills[c] = ""

\* a report with a subtree before a report without one: rows at depths
\* 0, 1, 2, 1, the last one of an employee without entries, next to filled ones
C9_Witness ==
    /\ Written
    /\ Len(rows) = 4
    /\ [k \in 1..4 |-> rows[k].indent] = <<0, 1, 2, 1>>
    /\ [k \in 1..4 |-> rows[k].row] = <<4, 5, 6, 7>>
    /\ \A x \in processed_data : x.emp # rows[4].name
    /\ DOMAIN rows[4].fills # {}
    /\ \E c \in DOMAIN rows[1].fills : rows[1].fills[c] # ""

====
